---- MODULE Spec2Model ----
(***************************************************************************)
(* String search (Boyer-Moore bad-character, KMP, Rabin-Karp) of           *)
(* src/task_3.py and the binary search of src/task_2.py, as state          *)
(* machines.  A string is a sequence of character codes (Python's ord);    *)
(* a Python index x of a sequence s is position x + 1 of the TLA+          *)
(* sequence, and a negative index counts from the end as Python does.      *)
(***************************************************************************)
EXTENDS Integers, Sequences, FiniteSets, TLC

\* Bounds of the model.
MaxTextLen == 4
MaxPatLen == 4
MaxArrLen == 5
MaxVal == 4

\* ord('a'), ord('b') and a code that is ord('a') + q, so that windows which
\* differ only in a/198 have equal Rabin-Karp hashes.
Alphabet == {97, 98, 198}

q == 101
d == 256

VARIABLES text, pattern, pc, i, j, k, shift_table, lps, length,
          pattern_hash, text_hash, h, ret,
          arr, target, left, right, iterations, bs_ret

bsVars == <<arr, target, left, right, iterations, bs_ret>>
vars == <<text, pattern, pc, i, j, k, shift_table, lps, length,
          pattern_hash, text_hash, h, ret,
          arr, target, left, right, iterations, bs_ret>>

(***************************************************************************)
(* Python sequences and dicts.                                             *)
(***************************************************************************)
\* s[x] does not raise IndexError
InRange(s, x) == x >= 0 - Len(s) /\ x < Len(s)

\* s[x]
At(s, x) == IF x >= 0 THEN s[x + 1] ELSE s[Len(s) + x + 1]

EmptyDict == [c \in {} |-> 0]

\* table[key] = val
Put(table, key, val) ==
    [c \in (DOMAIN table) \cup {key} |-> IF c = key THEN val ELSE table[c]]

\* table.setdefault(key, val)
SetDefault(table, key, val) ==
    IF key \in DOMAIN table THEN table ELSE Put(table, key, val)

\* variant: the empty-pattern test left out
IsEmptyNever(p) == FALSE

\* `not pattern`
IsEmpty(p) == Len(p) = 0

\* variant: the length test off by one
TooLongByTwo(t, p) == Len(p) > Len(t) + 1

\* pattern_length > text_length
TooLong(t, p) == Len(p) > Len(t)

(***************************************************************************)
(* build_shift_table                                                       *)
(***************************************************************************)
RECURSIVE FillTable(_, _, _)
\* for i in range(pattern_length - 1): table[pattern[i]] = pattern_length - i - 1
FillTable(p, x, table) ==
    IF x >= Len(p) - 1 THEN table
    ELSE FillTable(p, x + 1, Put(table, At(p, x), Len(p) - x - 1))

\* variant: the leftmost occurrence wins instead of the rightmost
build_shift_table_first(p) ==
    LET first(c) == CHOOSE x \in 0..(Len(p) - 2) :
                       /\ At(p, x) = c
                       /\ \A y \in 0..(x - 1) : At(p, y) # c
        keys == {At(p, x) : x \in 0..(Len(p) - 2)}
    IN  SetDefault([c \in keys |-> Len(p) - first(c) - 1], At(p, -1), Len(p))

build_shift_table(p) ==
    SetDefault(FillTable(p, 0, EmptyDict), At(p, -1), Len(p))

\* variant: no shift for a character absent from the table
ShiftForStuck(table, c, m) == IF c \in DOMAIN table THEN table[c] ELSE 0

\* if text[k] in shift_table: shift_table[text[k]] else: pattern_length
ShiftFor(table, c, m) == IF c \in DOMAIN table THEN table[c] ELSE m

(***************************************************************************)
(* Rabin-Karp hashing                                                      *)
(***************************************************************************)
RECURSIVE PowMod(_, _, _)
\* pow(b, e) % md for e >= 0; Python's integers are unbounded, so the product
\* is reduced at every factor to stay within TLC's integers (same value)
PowMod(b, e, md) == IF e = 0 THEN 1 % md ELSE (b * PowMod(b, e - 1, md)) % md

RECURSIVE Horner(_, _)
\* for i in range(m): hash = (d * hash + ord(s[i])) % q
Horner(s, cnt) ==
    IF cnt = 0 THEN 0 ELSE (d * Horner(s, cnt - 1) + At(s, cnt - 1)) % q

\* text_hash = (d * (text_hash - ord(text[i]) * h) + ord(text[i + m])) % q
Roll(th, out, in, hh) == (d * (th - out * hh) + in) % q

\* variant: an equal hash is trusted without comparing characters
VerifyTrusting(t, p, x) == TRUE

\* the character-by-character verification of the window at x
Verify(t, p, x) == \A y \in 0..(Len(p) - 1) : At(t, x + y) = At(p, y)

(***************************************************************************)
(* The indices the next step reads (or stores to), by program position.    *)
(* The literal index -1 of pattern[-1] is recorded as the position it      *)
(* denotes, len(pattern) - 1.                                              *)
(***************************************************************************)
\* s[x] where it exists; only used to follow the control flow up to a read
Get(s, x) == IF InRange(s, x) THEN At(s, x) ELSE 0

\* kmp_search, lines 101-103: the cursors after the first `if`
KmpI1 == IF Get(pattern, j) = Get(text, i) THEN i + 1 ELSE i
KmpJ1 == IF Get(pattern, j) = Get(text, i) THEN j + 1 ELSE j
\* kmp_search, line 107: the `elif` reads pattern[j] and text[i] again
KmpElif == KmpJ1 # Len(pattern) /\ KmpI1 < Len(text)

\* variant: range(n - m + 2)
RkLastStartLong(n, m) == n - m + 1

\* range(n - m + 1): the last window start
RkLastStart(n, m) == n - m

\* rabin_karp_search, lines 147-150: the offsets compared until the first
\* difference
VerifyReads(x) ==
    {y \in 0..(Len(pattern) - 1) :
        \A z \in 0..(y - 1) : Get(text, x + z) = Get(pattern, z)}

RkMatch(x) ==
    /\ pattern_hash = text_hash
    /\ \A y \in 0..(Len(pattern) - 1) : Get(text, x + y) = Get(pattern, y)

Proceeds == ~IsEmpty(pattern) /\ ~TooLong(text, pattern)

TextReads ==
    CASE pc = "bm_cmp" -> IF j >= 0 THEN {k} ELSE {}
      [] pc = "bm_shift" -> IF j = -1 THEN {} ELSE {k}
      [] pc = "kmp_loop" ->
            IF i < Len(text)
            THEN {i} \cup (IF KmpElif THEN {KmpI1} ELSE {})
            ELSE {}
      [] pc = "rk_start" ->
            IF Proceeds THEN 0..(Len(pattern) - 1) ELSE {}
      [] pc = "rk_loop" ->
            IF i <= RkLastStart(Len(text), Len(pattern))
            THEN (IF pattern_hash = text_hash
                  THEN {i + y : y \in VerifyReads(i)} ELSE {})
                 \cup (IF ~RkMatch(i) /\ i < Len(text) - Len(pattern)
                       THEN {i, i + Len(pattern)} ELSE {})
            ELSE {}
      [] OTHER -> {}

PatternReads ==
    CASE pc = "bm_start" ->
            IF ~TooLong(text, pattern) /\ ~IsEmpty(pattern)
            THEN 0..(Len(pattern) - 2) \cup {Len(pattern) - 1} ELSE {}
      [] pc = "bm_cmp" -> IF j >= 0 THEN {j} ELSE {}
      [] pc = "lps_loop" -> IF i < Len(pattern) THEN {i, length} ELSE {}
      [] pc = "kmp_loop" ->
            IF i < Len(text)
            THEN {j} \cup (IF KmpElif THEN {KmpJ1} ELSE {})
            ELSE {}
      [] pc = "rk_start" ->
            IF Proceeds THEN 0..(Len(pattern) - 1) ELSE {}
      [] pc = "rk_loop" ->
            IF /\ i <= RkLastStart(Len(text), Len(pattern))
               /\ pattern_hash = text_hash
            THEN VerifyReads(i) ELSE {}
      [] OTHER -> {}

LpsReads ==
    CASE pc = "lps_loop" ->
            IF i < Len(pattern)
            THEN IF Get(pattern, i) = Get(pattern, length) THEN {i}
                 ELSE IF length # 0 THEN {length - 1} ELSE {i}
            ELSE {}
      [] pc = "kmp_loop" ->
            IF /\ i < Len(text)
               /\ KmpElif
               /\ Get(pattern, KmpJ1) # Get(text, KmpI1)
               /\ KmpJ1 # 0
            THEN {KmpJ1 - 1} ELSE {}
      [] OTHER -> {}

\* no read of the next step raises IndexError
ReadsOK ==
    /\ \A x \in TextReads : InRange(text, x)
    /\ \A x \in PatternReads : InRange(pattern, x)
    /\ \A x \in LpsReads : InRange(lps, x)

\* an IndexError leaves the pipeline
Raise(locals) == pc' = "raised" /\ UNCHANGED locals

(***************************************************************************)
(* boyer_moore_search                                                      *)
(***************************************************************************)
\* lines 24-37: the two early returns, the table, the first alignment
BMStart ==
    /\ pc = "bm_start"
    /\ IF TooLong(text, pattern)
       THEN /\ ret' = Put(ret, "bm", -1)
            /\ pc' = "kmp_start"
            /\ UNCHANGED <<i, shift_table>>
       ELSE IF IsEmpty(pattern)
       THEN /\ ret' = Put(ret, "bm", 0)
            /\ pc' = "kmp_start"
            /\ UNCHANGED <<i, shift_table>>
       ELSE IF ~ReadsOK
       THEN Raise(<<i, shift_table, ret>>)
       ELSE /\ shift_table' = build_shift_table(pattern)
            /\ i' = Len(pattern) - 1
            /\ pc' = "bm_outer"
            /\ UNCHANGED ret
    /\ UNCHANGED <<text, pattern, j, k, lps, length, pattern_hash, text_hash, h>>
    /\ UNCHANGED bsVars

\* lines 39-41 and 57: the test of the outer loop
BMOuter ==
    /\ pc = "bm_outer"
    /\ IF i < Len(text)
       THEN /\ j' = Len(pattern) - 1
            /\ k' = i
            /\ pc' = "bm_cmp"
            /\ UNCHANGED ret
       ELSE /\ ret' = Put(ret, "bm", -1)
            /\ pc' = "kmp_start"
            /\ UNCHANGED <<j, k>>
    /\ UNCHANGED <<text, pattern, i, shift_table, lps, length,
                   pattern_hash, text_hash, h>>
    /\ UNCHANGED bsVars

\* lines 44-46: one test of the inner loop, right to left
BMCmp ==
    /\ pc = "bm_cmp"
    /\ IF ~ReadsOK
       THEN Raise(<<j, k>>)
       ELSE IF j >= 0 /\ At(text, k) = At(pattern, j)
       THEN /\ j' = j - 1
            /\ k' = k - 1
            /\ pc' = "bm_cmp"
       ELSE /\ pc' = "bm_shift"
            /\ UNCHANGED <<j, k>>
    /\ UNCHANGED <<text, pattern, i, shift_table, lps, length,
                   pattern_hash, text_hash, h, ret>>
    /\ UNCHANGED bsVars

\* lines 48-55: the match, or the shift by the mismatched text character
BMShift ==
    /\ pc = "bm_shift"
    /\ IF j = -1
       THEN /\ ret' = Put(ret, "bm", k + 1)
            /\ pc' = "kmp_start"
            /\ UNCHANGED i
       ELSE IF ~ReadsOK
       THEN Raise(<<i, ret>>)
       ELSE /\ i' = i + ShiftFor(shift_table, At(text, k), Len(pattern))
            /\ pc' = "bm_outer"
            /\ UNCHANGED ret
    /\ UNCHANGED <<text, pattern, j, k, shift_table, lps, length,
                   pattern_hash, text_hash, h>>
    /\ UNCHANGED bsVars

(***************************************************************************)
(* kmp_search and compute_lps                                              *)
(***************************************************************************)
\* lines 85-95 and 63-65: the two early returns, then compute_lps is entered
KMPStart ==
    /\ pc = "kmp_start"
    /\ IF IsEmpty(pattern)
       THEN /\ ret' = Put(ret, "kmp", 0)
            /\ pc' = "rk_start"
            /\ UNCHANGED <<i, lps, length>>
       ELSE IF TooLong(text, pattern)
       THEN /\ ret' = Put(ret, "kmp", -1)
            /\ pc' = "rk_start"
            /\ UNCHANGED <<i, lps, length>>
       ELSE /\ lps' = [x \in 1..Len(pattern) |-> 0]
            /\ length' = 0
            /\ i' = 1
            /\ pc' = "lps_loop"
            /\ UNCHANGED ret
    /\ UNCHANGED <<text, pattern, j, k, shift_table, pattern_hash, text_hash, h>>
    /\ UNCHANGED bsVars

\* line 74: length = lps[length - 1]
LpsFallback(tab, len) == At(tab, len - 1)

\* variant: compute_lps without the retry after a fallback: on a mismatch it records
\* 0 and moves on, whatever length is
LpsStepNoRetry ==
    /\ pc = "lps_loop"
    /\ IF ~ReadsOK
       THEN Raise(<<i, j, lps, length>>)
       ELSE IF i < Len(pattern)
       THEN /\ IF At(pattern, i) = At(pattern, length)
               THEN /\ length' = length + 1
                    /\ lps' = [lps EXCEPT ![i + 1] = length + 1]
                    /\ i' = i + 1
               ELSE /\ lps' = [lps EXCEPT ![i + 1] = 0]
                    /\ i' = i + 1
                    /\ UNCHANGED length
            /\ pc' = "lps_loop"
            /\ UNCHANGED j
       ELSE /\ i' = 0
            /\ j' = 0
            /\ pc' = "kmp_loop"
            /\ UNCHANGED <<lps, length>>
    /\ UNCHANGED <<text, pattern, k, shift_table, pattern_hash, text_hash, h, ret>>
    /\ UNCHANGED bsVars

\* lines 67-79 and 97-98: one pass of compute_lps's loop; at its end the
\* table is returned and kmp_search sets its cursors
LpsStep ==
    /\ pc = "lps_loop"
    /\ IF ~ReadsOK
       THEN Raise(<<i, j, lps, length>>)
       ELSE IF i < Len(pattern)
       THEN /\ IF At(pattern, i) = At(pattern, length)
               THEN /\ length' = length + 1
                    /\ lps' = [lps EXCEPT ![i + 1] = length + 1]
                    /\ i' = i + 1
               ELSE IF length # 0
               THEN /\ length' = LpsFallback(lps, length)
                    /\ UNCHANGED <<lps, i>>
               ELSE /\ lps' = [lps EXCEPT ![i + 1] = 0]
                    /\ i' = i + 1
                    /\ UNCHANGED length
            /\ pc' = "lps_loop"
            /\ UNCHANGED j
       ELSE /\ i' = 0
            /\ j' = 0
            /\ pc' = "kmp_loop"
            /\ UNCHANGED <<lps, length>>
    /\ UNCHANGED <<text, pattern, k, shift_table, pattern_hash, text_hash, h, ret>>
    /\ UNCHANGED bsVars

\* variant: j = 0 on a mismatch, the matched prefix forgotten
KmpFallbackToZero(tab, jj) == 0

\* line 109: j = lps[j - 1]
KmpFallback(tab, jj) == At(tab, jj - 1)

\* lines 100-113: one pass of kmp_search's loop
KMPStep ==
    /\ pc = "kmp_loop"
    /\ IF ~ReadsOK
       THEN Raise(<<i, j, ret>>)
       ELSE IF i < Len(text)
       THEN IF KmpJ1 = Len(pattern)
            THEN /\ i' = KmpI1
                 /\ j' = KmpJ1
                 /\ ret' = Put(ret, "kmp", KmpI1 - KmpJ1)
                 /\ pc' = "rk_start"
            ELSE /\ IF KmpI1 < Len(text) /\ At(pattern, KmpJ1) # At(text, KmpI1)
                    THEN IF KmpJ1 # 0
                         THEN /\ j' = KmpFallback(lps, KmpJ1)
                              /\ i' = KmpI1
                         ELSE /\ i' = KmpI1 + 1
                              /\ j' = KmpJ1
                    ELSE /\ i' = KmpI1
                         /\ j' = KmpJ1
                 /\ pc' = "kmp_loop"
                 /\ UNCHANGED ret
       ELSE /\ ret' = Put(ret, "kmp", -1)
            /\ pc' = "rk_start"
            /\ UNCHANGED <<i, j>>
    /\ UNCHANGED <<text, pattern, k, shift_table, lps, length,
                   pattern_hash, text_hash, h>>
    /\ UNCHANGED bsVars

(***************************************************************************)
(* rabin_karp_search                                                       *)
(***************************************************************************)
\* lines 119-139: the two early returns, the two hashes and h
RKStart ==
    /\ pc = "rk_start"
    /\ IF IsEmpty(pattern)
       THEN /\ ret' = Put(ret, "rk", 0)
            /\ pc' = "done"
            /\ UNCHANGED <<i, pattern_hash, text_hash, h>>
       ELSE IF TooLong(text, pattern)
       THEN /\ ret' = Put(ret, "rk", -1)
            /\ pc' = "done"
            /\ UNCHANGED <<i, pattern_hash, text_hash, h>>
       ELSE IF ~ReadsOK
       THEN Raise(<<i, pattern_hash, text_hash, h, ret>>)
       ELSE /\ h' = PowMod(d, Len(pattern) - 1, q)
            /\ pattern_hash' = Horner(pattern, Len(pattern))
            /\ text_hash' = Horner(text, Len(pattern))
            /\ i' = 0
            /\ pc' = "rk_loop"
            /\ UNCHANGED ret
    /\ UNCHANGED <<text, pattern, j, k, shift_table, lps, length>>
    /\ UNCHANGED bsVars

\* lines 142-163: one pass of the sliding loop
RKStep ==
    /\ pc = "rk_loop"
    /\ IF ~ReadsOK
       THEN Raise(<<i, text_hash, ret>>)
       ELSE IF i <= RkLastStart(Len(text), Len(pattern))
       THEN IF pattern_hash = text_hash /\ Verify(text, pattern, i)
            THEN /\ ret' = Put(ret, "rk", i)
                 /\ pc' = "done"
                 /\ UNCHANGED <<i, text_hash>>
            ELSE /\ text_hash' =
                        IF i < Len(text) - Len(pattern)
                        THEN Roll(text_hash, At(text, i),
                                  At(text, i + Len(pattern)), h)
                        ELSE text_hash
                 /\ i' = i + 1
                 /\ pc' = "rk_loop"
                 /\ UNCHANGED ret
       ELSE /\ ret' = Put(ret, "rk", -1)
            /\ pc' = "done"
            /\ UNCHANGED <<i, text_hash>>
    /\ UNCHANGED <<text, pattern, j, k, shift_table, lps, length,
                   pattern_hash, h>>
    /\ UNCHANGED bsVars

(***************************************************************************)
(* binary_search (src/task_2.py)                                           *)
(***************************************************************************)
\* the None of Python, and a value that is not None
None == <<>>
Some(v) == <<v>>

\* mid = (left + right) // 2
Mid(l, r) == (l + r) \div 2

\* variant: arr[-1] instead of arr[left]
UpperBoundLast(a, l) == IF l < Len(a) THEN Some(At(a, Len(a) - 1)) ELSE None

\* lines 31-34: arr[left] if left < len(arr), else None
UpperBound(a, l) == IF l < Len(a) THEN Some(At(a, l)) ELSE None

\* lines 19-28: one pass of the loop
BSStep ==
    /\ pc = "bs_loop"
    /\ left <= right
    /\ LET mid == Mid(left, right) IN
       IF ~InRange(arr, mid)
       THEN /\ pc' = "raised"
            /\ UNCHANGED <<left, right, iterations, bs_ret>>
       ELSE /\ iterations' = iterations + 1
            /\ IF At(arr, mid) = target
               THEN /\ bs_ret' = <<iterations + 1, Some(At(arr, mid))>>
                    /\ pc' = "bs_done"
                    /\ UNCHANGED <<left, right>>
               ELSE IF At(arr, mid) < target
               THEN /\ left' = mid + 1
                    /\ pc' = "bs_loop"
                    /\ UNCHANGED <<right, bs_ret>>
               ELSE /\ right' = mid - 1
                    /\ pc' = "bs_loop"
                    /\ UNCHANGED <<left, bs_ret>>
    /\ UNCHANGED <<arr, target>>
    /\ UNCHANGED <<text, pattern, i, j, k, shift_table, lps, length,
                   pattern_hash, text_hash, h, ret>>

\* lines 30-34: the loop has ended without finding the target
BSReturn ==
    /\ pc = "bs_loop"
    /\ left > right
    /\ bs_ret' = <<iterations, UpperBound(arr, left)>>
    /\ pc' = "bs_done"
    /\ UNCHANGED <<arr, target, left, right, iterations>>
    /\ UNCHANGED <<text, pattern, i, j, k, shift_table, lps, length,
                   pattern_hash, text_hash, h, ret>>

(***************************************************************************)
(* Specifications                                                          *)
(***************************************************************************)
Strings(n) == UNION {[1..len -> Alphabet] : len \in 0..n}

\* the arrays binary_search is documented for: sorted, duplicates allowed
SortedArrays ==
    {a \in UNION {[1..len -> 1..MaxVal] : len \in 0..MaxArrLen} :
        \A x \in 1..(Len(a) - 1) : a[x] <= a[x + 1]}

SearchIdle ==
    /\ text = <<>> /\ pattern = <<>>
    /\ i = 0 /\ j = 0 /\ k = 0
    /\ shift_table = EmptyDict
    /\ lps = <<>> /\ length = 0
    /\ pattern_hash = 0 /\ text_hash = 0 /\ h = 0
    /\ ret = EmptyDict

BSIdle ==
    /\ arr = <<>> /\ target = 0
    /\ left = 0 /\ right = 0 - 1
    /\ iterations = 0
    /\ bs_ret = None

\* compare_algorithms, lines 229-251: the three matchers, in the order of
\* the list `algorithms`, on one text and one pattern
Init ==
    /\ text \in Strings(MaxTextLen)
    /\ pattern \in Strings(MaxPatLen)
    /\ pc = "bm_start"
    /\ i = 0 /\ j = 0 /\ k = 0
    /\ shift_table = EmptyDict
    /\ lps = <<>> /\ length = 0
    /\ pattern_hash = 0 /\ text_hash = 0 /\ h = 0
    /\ ret = EmptyDict
    /\ BSIdle

Next ==
    \/ BMStart \/ BMOuter \/ BMCmp \/ BMShift
    \/ KMPStart \/ LpsStep \/ KMPStep
    \/ RKStart \/ RKStep

Spec == Init /\ [][Next]_vars

\* every matcher runs to its return without suspension (single thread)
FairSpec == Init /\ [][Next]_vars /\ WF_vars(Next)

\* binary_search, lines 14-17, on a sorted array
BSInit ==
    /\ arr \in SortedArrays
    /\ target \in 0..(MaxVal + 1)
    /\ left = 0
    /\ right = Len(arr) - 1
    /\ iterations = 0
    /\ bs_ret = None
    /\ pc = "bs_loop"
    /\ SearchIdle

BSNext == BSStep \/ BSReturn

BSSpec == BSInit /\ [][BSNext]_vars

(***************************************************************************)
(* Properties                                                              *)
(***************************************************************************)
\* p occurs in t at the 0-based start s: t[s:s+len(p)] == p
OccursAt(t, p, s) ==
    /\ s >= 0
    /\ s + Len(p) <= Len(t)
    /\ \A x \in 1..Len(p) : t[s + x] = p[x]

\* the lowest start of p in t, or -1
FirstOccurrence(t, p) ==
    IF \E s \in 0..Len(t) : OccursAt(t, p, s)
    THEN CHOOSE s \in 0..Len(t) :
            /\ OccursAt(t, p, s)
            /\ \A s2 \in 0..(s - 1) : ~OccursAt(t, p, s2)
    ELSE 0 - 1

\* a non-empty pattern no longer than the text
NonTrivial == Len(pattern) >= 1 /\ Len(pattern) <= Len(text)

Matchers == {"bm", "kmp", "rk"}

StartOrDone == {"bm_start", "kmp_start", "rk_start", "done"}

\* the matchers that have returned at each position between two calls
ReturnedAt ==
    CASE pc = "bm_start" -> {}
      [] pc = "kmp_start" -> {"bm"}
      [] pc = "rk_start" -> {"bm", "kmp"}
      [] pc = "done" -> Matchers
      [] OTHER -> DOMAIN ret

PatternChars == {At(pattern, x) : x \in 0..(Len(pattern) - 1)}

\* C1: for a non-empty pattern no longer than the text, the three matchers
\* return the same value, the lowest index where the pattern occurs in the
\* text, or -1 when it does not occur.
C1_AllReturnFirstOccurrence ==
    (pc = "done" /\ NonTrivial) =>
        \A a \in Matchers : ret[a] = FirstOccurrence(text, pattern)

\* C2: kmp_search returns i - j at the first moment j reaches m (j stays
\* below m while the loop runs), that value is the first occurrence; and it
\* returns -1 exactly when the loop ends with j short of m, which is exactly
\* when the pattern does not occur.
C2_KmpReturnsFirstOccurrence ==
    NonTrivial =>
        /\ pc = "kmp_loop" => j < Len(pattern)
        /\ pc = "rk_start" =>
              /\ ret["kmp"] = FirstOccurrence(text, pattern)
              /\ j = Len(pattern) => ret["kmp"] = i - j
              /\ (ret["kmp"] = 0 - 1) <=> (j # Len(pattern) /\ i >= Len(text))
              /\ (ret["kmp"] = 0 - 1) <=>
                    ~ \E s \in 0..Len(text) : OccursAt(text, pattern, s)

\* kmp_search has fallen back through a non-zero lps entry and then found
\* the pattern at index 1 ("aab" in "aaab")
C2_Witness ==
    /\ pc = "rk_start"
    /\ NonTrivial
    /\ Len(pattern) = 3
    /\ lps = <<0, 1, 0>>
    /\ ret["kmp"] = 1
    /\ j = 3 /\ i = 4

\* the window of the text at start s hashes like the pattern without being it
Collision(s) ==
    /\ s + Len(pattern) <= Len(text)
    /\ Horner(SubSeq(text, s + 1, s + Len(pattern)), Len(pattern))
          = Horner(pattern, Len(pattern))
    /\ ~OccursAt(text, pattern, s)

C3_NoFalsePositive ==
    (NonTrivial /\ "rk" \in DOMAIN ret) =>
        /\ ret["rk"] >= 0 => OccursAt(text, pattern, ret["rk"])
        /\ ret["rk"] = FirstOccurrence(text, pattern)

C3_CollisionSlides ==
    (/\ pc = "rk_loop"
     /\ i <= Len(text) - Len(pattern)
     /\ pattern_hash = text_hash
     /\ ~OccursAt(text, pattern, i))
        => (pc' = "rk_loop" /\ i' = i + 1 /\ ret' = ret)

\* C3: rabin_karp_search never returns a false positive: an index it returns
\* for a non-empty pattern starts an exact occurrence; a window whose hash
\* equals the pattern's but which differs from it makes the search slide on,
\* and the result is still the first true occurrence (or -1).
C3_RabinKarpVerifies == []C3_NoFalsePositive /\ [][C3_CollisionSlides]_vars

\* rabin_karp_search met a colliding window at 0 and returned a later match
C3_Witness ==
    /\ pc = "done"
    /\ NonTrivial
    /\ Len(pattern) >= 2
    /\ Collision(0)
    /\ ret["rk"] >= 1

\* C4: for the empty pattern and any text, the empty text included, each
\* matcher returns 0 (straight from its entry, without raising).
C4_EmptyPatternReturnsZero ==
    pattern = <<>> =>
        /\ pc \in StartOrDone
        /\ DOMAIN ret = ReturnedAt
        /\ \A a \in DOMAIN ret : ret[a] = 0

C4_Witness ==
    /\ pc = "done"
    /\ pattern = <<>>
    /\ text = <<>>
    /\ \A a \in Matchers : ret[a] = 0

\* C5: for a pattern longer than the text each matcher returns -1 straight
\* from its entry: nothing raises, no shift table, lps table or hash is
\* built, and no character of the text or the pattern is read.
C5_LongPatternShortCircuits ==
    Len(pattern) > Len(text) =>
        /\ pc \in StartOrDone
        /\ DOMAIN ret = ReturnedAt
        /\ \A a \in DOMAIN ret : ret[a] = 0 - 1
        /\ shift_table = EmptyDict
        /\ lps = <<>>
        /\ pattern_hash = 0 /\ text_hash = 0 /\ h = 0
        /\ TextReads = {} /\ PatternReads = {} /\ LpsReads = {}

C5_Witness ==
    /\ pc = "done"
    /\ Len(pattern) = Len(text) + 1
    /\ Len(text) >= 1
    /\ \A a \in Matchers : ret[a] = 0 - 1

\* pattern[0..len) equals pattern[x-len+1..x]
PrefixIsSuffix(p, x, len) ==
    \A y \in 0..(len - 1) : At(p, y) = At(p, x - len + 1 + y)

\* the length of the longest proper prefix of p[0..x] that is also its suffix
LongestBorder(p, x) ==
    CHOOSE len \in 0..x :
        /\ PrefixIsSuffix(p, x, len)
        /\ \A l2 \in (len + 1)..x : ~PrefixIsSuffix(p, x, l2)

\* C6: the table compute_lps returns for a non-empty pattern of length m has
\* length m and lps[0] = 0, and for every i: lps[i] < i + 1, the prefix of
\* length lps[i] equals the suffix of pattern[0..i] of that length, and no
\* longer proper prefix does.
C6_LpsTable ==
    (pc \in {"kmp_loop", "rk_start", "rk_loop", "done"} /\ NonTrivial) =>
        /\ Len(lps) = Len(pattern)
        /\ lps[1] = 0
        /\ \A x \in 0..(Len(pattern) - 1) :
              /\ lps[x + 1] >= 0
              /\ lps[x + 1] < x + 1
              /\ PrefixIsSuffix(pattern, x, lps[x + 1])
              /\ lps[x + 1] = LongestBorder(pattern, x)

\* compute_lps has returned for a pattern like "aaba": a fallback to length
\* 0, then a border of length 1 again
C6_Witness ==
    /\ pc = "kmp_loop"
    /\ i = 0 /\ j = 0
    /\ Len(pattern) = 4
    /\ lps = <<0, 1, 0, 1>>

\* the rightmost index of c in pattern[0..m-2]
RightmostBeforeLast(c) ==
    CHOOSE r \in 0..(Len(pattern) - 2) :
        /\ At(pattern, r) = c
        /\ \A r2 \in (r + 1)..(Len(pattern) - 2) : At(pattern, r2) # c

C7_TableOK ==
    (pc \in {"bm_outer", "bm_cmp", "bm_shift"}) =>
        LET m == Len(pattern)
            inner == {At(pattern, x) : x \in 0..(m - 2)}
            last == At(pattern, m - 1)
        IN  /\ m >= 1
            /\ DOMAIN shift_table = PatternChars
            /\ \A c \in DOMAIN shift_table : shift_table[c] \in 1..m
            /\ \A c \in inner :
                  shift_table[c] = m - 1 - RightmostBeforeLast(c)
            /\ (shift_table[last] = m) <=> (last \notin inner)

C7_AbsentShiftsByM ==
    (pc = "bm_shift" /\ j >= 0 /\ At(text, k) \notin PatternChars)
        => (pc' = "bm_outer" /\ i' = i + Len(pattern))

\* C7: every value of the table build_shift_table returns is in 1..m; a
\* character of pattern[0..m-2] maps to m-1-r for its rightmost index r
\* there; the last character maps to m only if it occurs nowhere else; and
\* in boyer_moore_search a mismatched text character absent from the pattern
\* moves the cursor by exactly m.
C7_ShiftTable == []C7_TableOK /\ [][C7_AbsentShiftsByM]_vars

\* the cursor has just moved by m past a character absent from a pattern
\* whose last character also occurs earlier
C7_Witness ==
    /\ pc = "bm_outer"
    /\ Len(pattern) = 3
    /\ pattern[1] = pattern[3]
    /\ pattern[2] # pattern[1]
    /\ j >= 0
    /\ i = k + (Len(pattern) - 1 - j) + Len(pattern)
    /\ At(text, k) \notin PatternChars

Elements == {arr[x] : x \in 1..Len(arr)}

\* C8: on a sorted array (empty or with duplicates included) binary_search
\* returns (iterations, u): u is the target when it occurs, else the
\* smallest element >= target, else None (also for the empty array);
\* iterations counts the passes and is at least 1 for a non-empty array.
C8_BinarySearchUpperBound ==
    pc = "bs_done" =>
        LET u == bs_ret[2]
            above == {e \in Elements : e >= target}
        IN  /\ Len(bs_ret) = 2
            /\ target \in Elements => u = Some(target)
            /\ (target \notin Elements /\ above # {}) =>
                  /\ u # None
                  /\ u[1] \in above
                  /\ \A e \in above : u[1] <= e
            /\ above = {} => u = None
            /\ bs_ret[1] = iterations
            /\ Len(arr) >= 1 => bs_ret[1] >= 1
            /\ Len(arr) = 0 => bs_ret[1] = 0

\* an absent target between duplicated elements, after several passes
C8_Witness ==
    /\ pc = "bs_done"
    /\ Len(arr) >= 4
    /\ arr[1] = arr[2]
    /\ arr[1] < target
    /\ target \notin Elements
    /\ bs_ret[2] # None
    /\ bs_ret[2][1] > target
    /\ bs_ret[1] >= 2

\* C9: no matcher raises: every text index about to be read is in 0..n-1
\* (the Boyer-Moore k is never negative at a read), every pattern index in
\* 0..m-1, every lps index in 0..m-1 (build_shift_table, which reads the
\* last pattern position, never gets an empty pattern).
C9_IndicesInRange ==
    /\ pc # "raised"
    /\ \A x \in TextReads : x >= 0 /\ x <= Len(text) - 1
    /\ \A x \in PatternReads : x >= 0 /\ x <= Len(pattern) - 1
    /\ \A x \in LpsReads :
          x >= 0 /\ x <= Len(pattern) - 1 /\ Len(lps) = Len(pattern)
    /\ pc \in {"bm_cmp", "bm_shift"} => (j >= 0 => k >= 0)
    /\ shift_table # EmptyDict => Len(pattern) >= 1

\* Boyer-Moore is about to read text[0] after matching all but the first
\* pattern character
C9_Witness ==
    /\ pc = "bm_cmp"
    /\ Len(pattern) >= 2
    /\ j = 0 /\ k = 0
    /\ TextReads = {0}

C10_Progress ==
    /\ (pc = "bm_shift" /\ pc' = "bm_outer") => i' > i
    /\ (pc = "kmp_loop" /\ pc' = "kmp_loop") => (i' > i \/ j' < j)
    /\ (pc = "lps_loop" /\ pc' = "lps_loop") => (i' > i \/ length' < length)

\* C10: every call returns: the three matchers (compute_lps within
\* kmp_search) all reach their return; the Boyer-Moore cursor i grows on
\* every outer pass that does not return, and every pass of the KMP loop
\* and of the lps loop advances i or strictly lowers j (length).
C10_Terminates == <>(pc = "done") /\ [][C10_Progress]_vars

\* all three have returned on a text where Boyer-Moore shifted and KMP and
\* compute_lps fell back
C10_Witness ==
    /\ pc = "done"
    /\ DOMAIN ret = Matchers
    /\ Len(text) >= 4
    /\ Len(pattern) = 3
    /\ lps = <<0, 1, 0>>
    /\ ret["kmp"] = 1

====
